---- MODULE Spec2Model ----
(***************************************************************************)
(* syncrypto/crypto.py: the container format engine (class Crypto).        *)
(* encrypt_fd writes header, encrypted pathname, encrypted padded content  *)
(* and encrypted footer; decrypt_fd parses them back with a one-chunk      *)
(* lookahead loop and compares the stored digest with the recomputed one.  *)
(*                                                                         *)
(* Bytes are integers 0..255, byte strings are sequences (tuples).         *)
(* The library primitives (hashlib.md5, AES-CBC from `cryptography`, zlib) *)
(* are modelled by small stand-ins that keep what the engine relies on:    *)
(*   md5      a 16-byte value that depends on every byte, its position     *)
(*            and the length, computed incrementally by update();          *)
(*   cipher   a keyed, position-dependent byte transformation working on   *)
(*            whole 16-byte blocks, buffering a partial block between      *)
(*            update() calls, finalize() failing on a partial block; the   *)
(*            CBC chaining value is represented by the block index;        *)
(*   zlib     a framed stream (2-byte header, stored block, checksum)      *)
(*            whose decompress() rejects anything that is not a frame.     *)
(***************************************************************************)
EXTENDS Integers, Sequences, FiniteSets, TLC

\* ---------------------------------------------------------------- constants
VERSION == 1
COMPRESS == 1
BUFFER_SIZE == 1024
block_size == 16
key_size == 32

\* in_fd.read(Crypto.BUFFER_SIZE * bs)
ChunkSize == BUFFER_SIZE * block_size

\* ------------------------------------------------------------------ bounds
\* content lengths k*block_size-1, k*block_size, k*block_size+1 for k <= MaxBlocks
MaxBlocks == 1
\* content lengths ChunkSize - j*block_size - r for j <= MaxBack, r in 0..1
MaxBack == 3

\* ------------------------------------------------------------ Python values
\* None is <<>>, a present value v is <<v>>
None == <<>>
Some(v) == <<v>>
IsNone(o) == Len(o) = 0
Get(o) == o[1]

Min(a, b) == IF a < b THEN a ELSE b
Max(a, b) == IF a > b THEN a ELSE b

\* a byte string as a tuple
Bytes(f) == <<>> \o f

\* Python slice s[a:b] (0-based, negative indices count from the end)
NormIndex(i, n) == IF i < 0 THEN Max(0, n + i) ELSE Min(i, n)
Slice(s, a, b) == SubSeq(s, NormIndex(a, Len(s)) + 1, NormIndex(b, Len(s)))
\* s[a:]
SliceFrom(s, a) == SubSeq(s, NormIndex(a, Len(s)) + 1, Len(s))
\* s[:b]
SliceTo(s, b) == SubSeq(s, 1, NormIndex(b, Len(s)))

\* n * b'x'
Repeat(n, x) == Bytes([i \in 1..n |-> x])

\* ------------------------------------------------------------ struct.pack
\* the numbers the model checker can hold are below 2^31
Pow256(k) == IF k = 0 THEN 1 ELSE IF k = 1 THEN 256 ELSE IF k = 2 THEN 65536 ELSE 16777216

\* big-endian unsigned, width bytes, for 0 <= x < 2^31
PackBE(x, width) ==
    Bytes([k \in 1..width |->
        IF width - k >= 4 THEN 0 ELSE (x \div Pow256(width - k)) % 256])

\* pack('!i', x): two's complement, big-endian
PackSigned32(x) ==
    IF x >= 0 THEN PackBE(x, 4)
    ELSE LET y == x + 2147483647 + 1   \* x + 2^31, in 0..2^31-1
         IN  <<128 + (y \div 16777216)>> \o PackBE(y % 16777216, 3)

\* a value too large for the model checker is kept as its bytes
Fits(b) ==
    /\ \A k \in 1..Len(b) : (Len(b) - k >= 4) => b[k] = 0
    /\ (Len(b) >= 4) => b[Len(b) - 3] < 128

Horner(b) ==
    LET n == Len(b)
        at(k) == IF k >= 1 THEN b[k] ELSE 0
    IN  at(n) + 256 * at(n - 1) + 65536 * at(n - 2) + 16777216 * at(n - 3)

UnpackBE(b) == IF Fits(b) THEN Horner(b) ELSE [wide |-> b]

UnpackSigned32(b) ==
    IF b[1] < 128 THEN Horner(b)
    ELSE Horner(<<b[1] - 128>> \o SubSeq(b, 2, 4)) - 2147483647 - 1

\* ---------------------------------------------------------------- hashlib
RECURSIVE WeightedSum(_, _, _, _)
\* sum over i in lo..hi of weight(off + i) * (d[i] + 1), modulo 65521
\* (ranges of up to 8 bytes are summed directly, longer ones are halved)
WeightedSum(d, off, lo, hi) ==
    IF hi - lo < 8
    THEN LET t(i) == IF i <= hi THEN (((off + i) % 251) + 1) * (d[i] + 1) ELSE 0
         IN  (t(lo) + t(lo + 1) + t(lo + 2) + t(lo + 3)
              + t(lo + 4) + t(lo + 5) + t(lo + 6) + t(lo + 7)) % 65521
    ELSE LET mid == (lo + hi) \div 2
         IN  (WeightedSum(d, off, lo, mid) + WeightedSum(d, off, mid + 1, hi)) % 65521

\* hashlib.md5()
md5_new == [n |-> 0, h |-> 0]

\* md5.update(data)
md5_update(m, data) ==
    [n |-> m.n + Len(data),
     h |-> (m.h + WeightedSum(data, m.n, 1, Len(data))) % 65521]

\* md5.digest(): 16 bytes
md5_digest(m) ==
    Bytes([k \in 1..16 |->
        LET w == (m.h * (((k - 1) \div 2) + 1) + (m.n % 65521) * (k + 2) + k) % 65521
        IN  IF k % 2 = 1 THEN w \div 256 ELSE w % 256])

\* hashlib.md5(data).digest()
md5(data) == md5_digest(md5_update(md5_new, data))

\* ------------------------------------------------------------------- zlib
\* the 4-byte checksum that ends a zlib stream
adler32(d) ==
    PackBE(WeightedSum(d, 1, 1, Len(d)), 2) \o PackBE((1 + Len(d)) % 65521, 2)

\* zlib.compress(data): header, one stored block (LEN, NLEN little-endian), checksum
zlib_compress(d) ==
    LET n == Len(d)
    IN  <<120, 156, 1, n % 256, n \div 256, 255 - (n % 256), 255 - (n \div 256)>>
        \o d \o adler32(d)

\* zlib.decompress(data) succeeds exactly on a well-formed frame
zlib_wellformed(z) ==
    /\ Len(z) >= 11
    /\ z[1] = 120 /\ z[2] = 156 /\ z[3] = 1
    /\ z[4] + z[6] = 255 /\ z[5] + z[7] = 255
    /\ Len(z) = z[4] + 256 * z[5] + 11
    /\ SubSeq(z, Len(z) - 3, Len(z)) = adler32(SubSeq(z, 8, Len(z) - 4))

zlib_decompress(z) == SubSeq(z, 8, Len(z) - 4)

\* ---------------------------------------------------- cryptography (cipher)
\* Cipher(algorithms.AES(key), modes.CBC(iv)).encryptor() / .decryptor()
cipher_new(key, iv) ==
    [lane |-> Bytes([j \in 1..block_size |->
                 (key[j] + key[j + block_size] + iv[j]) % 256]),
     buf |-> <<>>, blocks |-> 0]

\* the key stream byte for the i-th byte (1-based) handed to the context c
KeyStream(c, i) ==
    (c.lane[((i - 1) % block_size) + 1] + 7 * (c.blocks + ((i - 1) \div block_size))) % 256

\* the whole blocks available once data is appended to the pending bytes
WholeBlocks(c, data) == ((Len(c.buf) + Len(data)) \div block_size) * block_size

\* encryptor.update(data): the bytes it returns
encrypt_update(c, data) ==
    LET all == c.buf \o data
    IN  Bytes([i \in 1..WholeBlocks(c, data) |-> (all[i] + KeyStream(c, i)) % 256])

\* decryptor.update(data): the bytes it returns
decrypt_update(c, data) ==
    LET all == c.buf \o data
    IN  Bytes([i \in 1..WholeBlocks(c, data) |-> (all[i] + 256 - KeyStream(c, i)) % 256])

\* the context after update(data): a partial block stays pending
cipher_after(c, data) ==
    [c EXCEPT !.buf = SubSeq(c.buf \o data, WholeBlocks(c, data) + 1,
                             Len(c.buf) + Len(data)),
              !.blocks = c.blocks + (WholeBlocks(c, data) \div block_size)]

\* finalize() raises ValueError when a partial block is pending, else returns b''
finalize_ok(c) == Len(c.buf) = 0

\* ------------------------------------------------------- Crypto.gen_key_and_iv
RECURSIVE KeyMaterial(_, _, _, _)
KeyMaterial(d, d_i, password, salt) ==
    IF Len(d) >= key_size + block_size THEN d
    ELSE LET next == md5(d_i \o password \o salt)
         IN  KeyMaterial(d \o next, next, password, salt)

\* <<key, iv>>
gen_key_and_iv(password, salt) ==
    LET d == KeyMaterial(<<>>, <<>>, password, salt)
    IN  <<Slice(d, 0, key_size), Slice(d, key_size, key_size + block_size)>>

\* ------------------------------------------------------------------ FileEntry
\* FileEntry(pathname, size, ctime, mtime, mode, digest=None, isdir=False), salt None
FileEntry(pathname, size, ctime, mtime, mode, digest) ==
    [pathname |-> pathname, size |-> size, ctime |-> ctime, mtime |-> mtime,
     mode |-> mode, digest |-> digest, salt |-> None]

\* times are held in milliseconds; int(t) truncates to whole seconds
IntOfTime(t) == t \div 1000

\* str.encode("utf-8") of one code point: one to four bytes
Utf8Char(c) ==
    IF c < 128 THEN <<c>>
    ELSE IF c < 2048 THEN <<192 + (c \div 64), 128 + (c % 64)>>
    ELSE IF c < 65536
    THEN <<224 + (c \div 4096), 128 + ((c \div 64) % 64), 128 + (c % 64)>>
    ELSE <<240 + (c \div 262144), 128 + ((c \div 4096) % 64),
           128 + ((c \div 64) % 64), 128 + (c % 64)>>

RECURSIVE Utf8Range(_, _, _)
Utf8Range(s, lo, hi) ==
    IF lo > hi THEN <<>>
    ELSE IF lo = hi THEN Utf8Char(s[lo])
    ELSE LET mid == (lo + hi) \div 2
         IN  Utf8Range(s, lo, mid) \o Utf8Range(s, mid + 1, hi)

Utf8Encode(s) == Utf8Range(s, 1, Len(s))

\* ------------------------------------------------------------ footer codec
\* Crypto._build_footer(file_entry)
build_footer(file_entry) ==
    Get(file_entry.digest)
    \o PackBE(file_entry.size, 8)
    \o PackBE(IntOfTime(file_entry.ctime), 4)
    \o PackBE(IntOfTime(file_entry.mtime), 4)
    \o PackSigned32(file_entry.mode)
    \o Repeat(12, 0)

\* unpack(b'!QIIi', footer[16:36]) needs exactly 20 bytes, else struct.error
footer_unpackable(footer) == Len(Slice(footer, 16, 36)) = 20

\* Crypto._unpack_footer(pathname, footer)
unpack_footer(pathname, footer) ==
    FileEntry(pathname,
              UnpackBE(Slice(footer, 16, 24)),
              UnpackBE(Slice(footer, 24, 28)),
              UnpackBE(Slice(footer, 28, 32)),
              UnpackSigned32(Slice(footer, 32, 36)),
              Some(SliceTo(footer, 16)))

\* ------------------------------------------------------------------ streams
\* fd.read(n) on a stream [data, pos] that returns all it has up to n bytes
Read(fd, n) == SubSeq(fd.data, fd.pos + 1, Min(fd.pos + n, Len(fd.data)))
AfterRead(fd, n) == [fd EXCEPT !.pos = Min(fd.pos + n, Len(fd.data))]
Stream(data) == [data |-> data, pos |-> 0]

\* =================================================================== state
VARIABLES
    pc,             \* the step the run is at
    password,       \* self.password of the encrypting Crypto
    plain_fd,       \* encrypt_fd's in_fd argument: the content source
    read_limit,     \* the most bytes one read(n) call on the content source returns
    entry_arg,      \* encrypt_fd's file_entry argument (None or a FileEntry)
    flags_arg,      \* encrypt_fd's flags argument
    enc_entry,      \* encrypt_fd: file_entry
    enc_flags,      \* encrypt_fd: flags after masking
    encryptor,      \* encrypt_fd: encryptor
    enc_in,         \* encrypt_fd: in_fd (the compression buffer when COMPRESS)
    enc_md5,        \* encrypt_fd: md5
    enc_pads,       \* encrypt_fd: the padding appended to each padded chunk, in order
    enc_reads,      \* encrypt_fd: number of chunks read in the loop
    encrypted_fd,   \* encrypt_fd's out_fd: the container written so far
    enc_result,     \* "none", "ok" (returned file_entry) or the error raised
    password2,      \* self.password of the decrypting Crypto
    in_fd,          \* decrypt_fd's in_fd: the stream handed to the reader
    out_fd,         \* decrypt_fd's out_fd: the sink
    dec_flags,      \* decrypt_fd: flags
    pathname_size,  \* decrypt_fd: pathname_size
    salt,           \* decrypt_fd: salt
    decryptor,      \* decrypt_fd: decryptor
    pathname_block_size, \* decrypt_fd: pathname_block_size
    pathname,       \* decrypt_fd: pathname
    str_io,         \* decrypt_fd: str_io
    dec_md5,        \* decrypt_fd: md5
    next_chunk,     \* decrypt_fd: next_chunk
    padding_length, \* decrypt_fd: padding_length (None until read)
    file_entry,     \* decrypt_fd: file_entry (None until unpacked)
    result          \* "none", "ok" (returned file_entry) or the error raised

enc_vars == <<password, plain_fd, read_limit, entry_arg, flags_arg, enc_entry, enc_flags, encryptor,
              enc_in, enc_md5, enc_pads, enc_reads, encrypted_fd, enc_result>>
dec_vars == <<password2, in_fd, out_fd, dec_flags, pathname_size, salt, decryptor,
              pathname_block_size, pathname, str_io, dec_md5, next_chunk,
              padding_length, file_entry, result>>
vars == <<pc, enc_vars, dec_vars>>

\* ------------------------------------------------------------------ inputs
\* the content of length n
Plain(n) == Bytes([i \in 1..n |-> (i * 7 + 3) % 256])

\* a pathname of n ASCII characters
AsciiName(n) == Bytes([i \in 1..n |-> 97 + (i % 26)])

\* "e-acute / a": three characters, four bytes in UTF-8
AccentName == <<233, 47, 97>>

\* Crypto(password).password, already latin-1 encoded
Passwords == {<<112, 119>>, <<113, 119, 49>>}

\* os.urandom(bs - 4) returns one of these
Salts == {Repeat(block_size - 4, 5), Bytes([i \in 1..(block_size - 4) |-> 11 * i])}

\* time() returns one of these (milliseconds)
Times == {1700, 2300}

NearBlocks(max) == {n \in 0..(max * block_size + 1) :
                       \E k \in 0..max : n \in {k * block_size - 1, k * block_size,
                                                k * block_size + 1}}

SmallLengths == NearBlocks(MaxBlocks)

\* lengths whose padded content plus footer ends at or shortly after a chunk boundary
LargeLengths == {ChunkSize - j * block_size - r : j \in 0..MaxBack, r \in 0..1}
                \cup {ChunkSize + 1}

SmallNames == {AsciiName(n) : n \in NearBlocks(MaxBlocks)} \cup {AccentName}
LargeNames == {AsciiName(0), AsciiName(5)}

\* a caller's record: size, times and mode are the caller's, digest not yet known
CallerEntry(name, withsalt) ==
    IF withsalt
    THEN [FileEntry(name, 5, 1500, 2999, -1, None)
              EXCEPT !.salt = Some(Repeat(block_size - 4, 9))]
    ELSE FileEntry(name, 70000, 3000, 1000, 420, None)

\* a pathname of n characters U+1F600, four bytes each in UTF-8
WideName(n) == Bytes([i \in 1..n |-> 128512])

\* pathnames whose encoding reaches 2**16 bytes: 65536 and 65540 bytes
LongNames == {WideName(16384), WideName(16385)}

\* sources that hand out less than asked for: at most this many bytes a read
ShortLimits == {5, block_size}
\* content lengths read from such sources, with the pathnames used there
ShortLengths == {0, block_size + 1, 2 * block_size}
ShortNames == {AsciiName(0), AsciiName(3)}

Scenarios ==
    [n : SmallLengths,
     entry : {None} \cup {Some(CallerEntry(nm, ws)) : nm \in SmallNames, ws \in BOOLEAN},
     flags : {0, COMPRESS}, password : Passwords]
    \cup
    [n : LargeLengths,
     entry : {Some(CallerEntry(nm, FALSE)) : nm \in LargeNames},
     flags : {0, COMPRESS}, password : {<<112, 119>>}]
    \cup
    [n : {0}, entry : {Some(CallerEntry(nm, FALSE)) : nm \in LongNames},
     flags : {0}, password : {<<112, 119>>}]

\* the same calls on sources whose reads may come back short
ShortScenarios ==
    [n : ShortLengths,
     entry : {None} \cup {Some(CallerEntry(nm, ws)) : nm \in ShortNames, ws \in BOOLEAN},
     flags : {0, COMPRESS}, password : Passwords, limit : ShortLimits \cup {ChunkSize}]

NoCipher == [lane |-> <<>>, buf |-> <<>>, blocks |-> 0]
NoEntry == FileEntry(<<>>, 0, 0, 0, 0, None)

DecInit ==
    /\ password2 = <<>>
    /\ in_fd = Stream(<<>>)
    /\ out_fd = <<>>
    /\ dec_flags = 0
    /\ pathname_size = 0
    /\ salt = <<>>
    /\ decryptor = NoCipher
    /\ pathname_block_size = 0
    /\ pathname = <<>>
    /\ str_io = <<>>
    /\ dec_md5 = md5_new
    /\ next_chunk = <<>>
    /\ padding_length = None
    /\ file_entry = None
    /\ result = "none"

\* the state in which encrypt_fd is called
EncInit ==
    /\ pc = "encrypt"
    /\ enc_entry = NoEntry
    /\ enc_flags = 0
    /\ encryptor = NoCipher
    /\ enc_in = Stream(<<>>)
    /\ enc_md5 = md5_new
    /\ enc_pads = <<>>
    /\ enc_reads = 0
    /\ encrypted_fd = <<>>
    /\ enc_result = "none"
    /\ DecInit

\* every read of the content source returns all that was asked for, if there is
Init ==
    /\ \E sc \in Scenarios :
          /\ password = sc.password
          /\ plain_fd = Stream(Plain(sc.n))
          /\ entry_arg = sc.entry
          /\ flags_arg = sc.flags
    /\ read_limit = ChunkSize
    /\ EncInit

\* a read of the content source returns at most read_limit bytes
ShortInit ==
    /\ \E sc \in ShortScenarios :
          /\ password = sc.password
          /\ plain_fd = Stream(Plain(sc.n))
          /\ entry_arg = sc.entry
          /\ flags_arg = sc.flags
          /\ read_limit = sc.limit
    /\ EncInit

\* ============================================================== encrypt_fd
\* FileEntry('.tmp', ...)
TmpName == <<46, 116, 109, 112>>

\* flags & bit, for a one-bit mask
HasFlag(flags, bit) == (flags \div bit) % 2 = 1

\* a new salt whatever the record carries
with_fresh_salt(entry, fresh) == [entry EXCEPT !.salt = Some(fresh)]

\* if file_entry.salt is None: file_entry.salt = os.urandom(bs - 4)
with_salt(entry, fresh) ==
    IF IsNone(entry.salt) THEN [entry EXCEPT !.salt = Some(fresh)] ELSE entry

\* padding to the next block multiple, a whole block when already on one
pathname_padding_full(size) == Repeat(block_size - (size % block_size), 0)

\* pathname_padding
pathname_padding(size) ==
    IF size % block_size # 0
    THEN Repeat(block_size - (size % block_size), 0)
    ELSE <<>>

\* the chunk is the one to pad: len(chunk) == 0 or len(chunk) % bs != 0
is_last_chunk(chunk) == Len(chunk) = 0 \/ Len(chunk) % block_size # 0

\* padding up to the next block multiple, none when already on one
content_padding_to_multiple(len) == (block_size - (len % block_size)) % block_size

\* in_fd.read(Crypto.BUFFER_SIZE * bs): the compression buffer returns all it is
\* asked for, the caller's source at most read_limit bytes
chunk_read(flags, limit) ==
    IF HasFlag(flags, COMPRESS) THEN ChunkSize ELSE Min(ChunkSize, limit)

\* padding_length = (bs - len(chunk) % bs) or bs
content_padding_length(len) ==
    IF block_size - (len % block_size) # 0 THEN block_size - (len % block_size)
    ELSE block_size

\* header, encrypted pathname and the optional compression stage
EncryptStart ==
    /\ pc = "encrypt"
    /\ \E now \in (IF IsNone(entry_arg) THEN Times ELSE {0}),
          fresh \in (IF IsNone(entry_arg) \/ IsNone(Get(entry_arg).salt)
                     THEN Salts ELSE {<<>>}) :
        LET given == IF IsNone(entry_arg)
                     THEN FileEntry(TmpName, 0, now, now, 0, None)
                     ELSE Get(entry_arg)
            fe == with_salt(given, fresh)
            kiv == gen_key_and_iv(password, Get(fe.salt))
            ctx == cipher_new(kiv[1], kiv[2])
            name == SliceTo(Utf8Encode(fe.pathname), 65536)
            padded == name \o pathname_padding(Len(name))
            flags == flags_arg % 256
        IN  /\ enc_entry' = fe
            /\ enc_flags' = flags
            /\ IF Len(name) > 65535
               THEN \* pack(b'!H', pathname_size) raises struct.error
                    /\ encrypted_fd' = <<VERSION, flags>>
                    /\ enc_result' = "struct.error"
                    /\ pc' = "done"
                    /\ UNCHANGED <<encryptor, enc_in, plain_fd>>
               ELSE /\ encrypted_fd' = <<VERSION, flags>> \o PackBE(Len(name), 2)
                                       \o Get(fe.salt) \o encrypt_update(ctx, padded)
                    /\ encryptor' = cipher_after(ctx, padded)
                    /\ IF HasFlag(flags, COMPRESS)
                       THEN /\ enc_in' = Stream(zlib_compress(
                                            SliceFrom(plain_fd.data, plain_fd.pos)))
                            /\ plain_fd' = [plain_fd EXCEPT !.pos = Len(plain_fd.data)]
                       ELSE /\ enc_in' = plain_fd
                            /\ UNCHANGED plain_fd
                    /\ enc_result' = "none"
                    /\ pc' = "enc_loop"
    /\ UNCHANGED <<password, read_limit, entry_arg, flags_arg, enc_md5, enc_pads,
                   enc_reads>>
    /\ UNCHANGED dec_vars

\* one iteration of `while not finished`
EncryptChunk ==
    /\ pc = "enc_loop"
    /\ LET asked == chunk_read(enc_flags, read_limit)
           chunk == Read(enc_in, asked)
           pad == content_padding_length(Len(chunk))
           padded == IF is_last_chunk(chunk) THEN chunk \o Repeat(pad, pad) ELSE chunk
       IN  /\ enc_in' = AfterRead(enc_in, asked)
           /\ plain_fd' = IF HasFlag(enc_flags, COMPRESS) THEN plain_fd
                          ELSE AfterRead(plain_fd, asked)
           /\ enc_md5' = md5_update(enc_md5, chunk)
           /\ enc_reads' = enc_reads + 1
           /\ enc_pads' = IF is_last_chunk(chunk) THEN Append(enc_pads, Repeat(pad, pad))
                          ELSE enc_pads
           /\ encrypted_fd' = encrypted_fd \o encrypt_update(encryptor, padded)
           /\ encryptor' = cipher_after(encryptor, padded)
           /\ pc' = IF is_last_chunk(chunk) THEN "enc_footer" ELSE "enc_loop"
    /\ UNCHANGED <<password, read_limit, entry_arg, flags_arg, enc_entry, enc_flags,
                   enc_result>>
    /\ UNCHANGED dec_vars

\* digest, footer, finalize, return file_entry
EncryptFooter ==
    /\ pc = "enc_footer"
    /\ LET fe == [enc_entry EXCEPT !.digest = Some(md5_digest(enc_md5))]
           footer == build_footer(fe)
       IN  /\ enc_entry' = fe
           /\ encrypted_fd' = encrypted_fd \o encrypt_update(encryptor, footer)
           /\ encryptor' = cipher_after(encryptor, footer)
           /\ IF finalize_ok(cipher_after(encryptor, footer))
              THEN enc_result' = "ok" /\ pc' = "encrypted"
              ELSE enc_result' = "ValueError" /\ pc' = "done"
    /\ UNCHANGED <<password, plain_fd, read_limit, entry_arg, flags_arg, enc_flags,
                   enc_in, enc_md5, enc_pads, enc_reads>>
    /\ UNCHANGED dec_vars

\* ======================================================== the stored container
\* end of the encrypted pathname region of the container, as written
PathnameRegionEnd ==
    LET size == encrypted_fd[3] * 256 + encrypted_fd[4]
    IN  block_size + size + Len(pathname_padding(size))

\* version bytes a damaged or foreign container may carry
OtherVersions == {0, 2, 255}

\* a stream shorter than a header
ShortCut == 9

Handover(stream, pw) ==
    /\ in_fd' = Stream(stream)
    /\ password2' = pw
    /\ pc' = "decrypt"
    /\ UNCHANGED enc_vars
    /\ UNCHANGED <<out_fd, dec_flags, pathname_size, salt, decryptor, pathname_block_size,
                   pathname, str_io, dec_md5, next_chunk, padding_length, file_entry,
                   result>>

\* the container is read back as written, with either password
DeliverIntact ==
    /\ pc = "encrypted"
    /\ \E pw \in Passwords : Handover(encrypted_fd, pw)

\* the container is cut inside the header or pathname region, or right after it
DeliverTruncated ==
    /\ pc = "encrypted"
    /\ \E cut \in 0..PathnameRegionEnd :
          Handover(SubSeq(encrypted_fd, 1, cut), password)

\* the container carries another version byte, whole or cut inside the header
DeliverVersion ==
    /\ pc = "encrypted"
    /\ \E v \in OtherVersions, cut \in {ShortCut, Len(encrypted_fd)} :
          Handover(SubSeq(<<v>> \o Tail(encrypted_fd), 1, cut), password)

\* ============================================================== decrypt_fd
dec_locals == <<dec_flags, pathname_size, salt, decryptor, pathname_block_size, pathname,
                str_io, dec_md5, next_chunk, padding_length, file_entry>>

\* raise: the call ends with the error
Raise(error) == result' = error /\ pc' = "done"

\* rounding down to a block multiple
padded_pathname_size_floor(size) == (size \div block_size) * block_size

\* pathname_block_size = pathname_size, or int((pathname_size/bs+1) * bs) when
\* pathname_size % bs != 0.  `/` is true division (from __future__ import division):
\* pathname_size/bs is the exact quotient size/bs, so (size/bs + 1) * bs is the
\* fraction ((size + bs) * bs) / bs, which int() truncates.
padded_pathname_size(size) ==
    IF size % block_size # 0
    THEN ((size + block_size) * block_size) \div block_size
    ELSE size

\* the version gate: `if version > self.VERSION: raise VersionNotCompatible`
version_rejected_above(version) == version >= VERSION

version_rejected(version) == version > VERSION

\* decryptor.update(pathname_data)[:pathname_size]
keep_padded_pathname(plain, size) == plain

truncate_pathname(plain, size) == SliceTo(plain, size)

\* header line: length check, version gate, flags, pathname size, salt, key
DecryptStart ==
    /\ pc = "decrypt"
    /\ LET line == Read(in_fd, block_size)
           kiv == gen_key_and_iv(password2, SliceFrom(line, 4))
       IN  /\ in_fd' = AfterRead(in_fd, block_size)
           /\ IF Len(line) < block_size
              THEN Raise("UnrecognizedContent") /\ UNCHANGED dec_locals
              ELSE IF version_rejected(line[1])
              THEN Raise("VersionNotCompatible") /\ UNCHANGED dec_locals
              ELSE /\ dec_flags' = line[2]
                   /\ pathname_size' = line[3] * 256 + line[4]
                   /\ salt' = SliceFrom(line, 4)
                   /\ decryptor' = cipher_new(kiv[1], kiv[2])
                   /\ pc' = "dec_pathname"
                   /\ UNCHANGED <<pathname_block_size, pathname, str_io, dec_md5,
                                  next_chunk, padding_length, file_entry, result>>
    /\ UNCHANGED <<password2, out_fd>>
    /\ UNCHANGED enc_vars

\* the encrypted pathname region
DecryptPathname ==
    /\ pc = "dec_pathname"
    /\ LET size == padded_pathname_size(pathname_size)
           pathname_data == Read(in_fd, size)
       IN  /\ in_fd' = AfterRead(in_fd, size)
           /\ pathname_block_size' = size
           /\ IF Len(pathname_data) < size
              THEN /\ Raise("UnrecognizedContent")
                   /\ UNCHANGED <<decryptor, pathname, str_io, dec_md5, next_chunk>>
              ELSE /\ pathname' = truncate_pathname(
                                      decrypt_update(decryptor, pathname_data),
                                      pathname_size)
                   /\ decryptor' = cipher_after(decryptor, pathname_data)
                   /\ str_io' = <<>>
                   /\ dec_md5' = md5_new
                   /\ next_chunk' = <<>>
                   /\ pc' = "dec_loop"
                   /\ UNCHANGED result
    /\ UNCHANGED <<password2, out_fd, dec_flags, pathname_size, salt, padding_length,
                   file_entry>>
    /\ UNCHANGED enc_vars

\* one iteration of the lookahead loop `while not finished`
DecryptChunk ==
    /\ pc = "dec_loop"
    /\ LET chunk == next_chunk
           ahead == Read(in_fd, ChunkSize)
           plaintext == decrypt_update(decryptor, chunk)
           ctx == cipher_after(decryptor, chunk)
           footer == SliceFrom(plaintext, -48)
           padbyte == Slice(plaintext, -49, -48)
           content == SliceTo(plaintext, -padbyte[1] - 48)
       IN  /\ in_fd' = AfterRead(in_fd, ChunkSize)
           /\ next_chunk' = ahead
           /\ IF Len(chunk) = 0
              THEN UNCHANGED <<pc, decryptor, str_io, dec_md5, padding_length,
                               file_entry, result>>
              ELSE /\ decryptor' = ctx
                   /\ IF Len(ahead) # 0
                      THEN /\ str_io' = str_io \o plaintext
                           /\ dec_md5' = md5_update(dec_md5, plaintext)
                           /\ UNCHANGED <<pc, padding_length, file_entry, result>>
                      ELSE IF ~finalize_ok(ctx)
                      THEN /\ Raise("ValueError")
                           /\ UNCHANGED <<str_io, dec_md5, padding_length, file_entry>>
                      ELSE IF ~footer_unpackable(footer)
                      THEN /\ Raise("struct.error")
                           /\ UNCHANGED <<str_io, dec_md5, padding_length, file_entry>>
                      ELSE IF Len(padbyte) = 0
                      THEN \* bytearray(b'')[0] raises IndexError
                           /\ file_entry' = Some(unpack_footer(pathname, footer))
                           /\ Raise("IndexError")
                           /\ UNCHANGED <<str_io, dec_md5, padding_length>>
                      ELSE /\ file_entry' = Some(unpack_footer(pathname, footer))
                           /\ padding_length' = Some(padbyte[1])
                           /\ str_io' = str_io \o content
                           /\ dec_md5' = md5_update(dec_md5, content)
                           /\ pc' = IF HasFlag(dec_flags, COMPRESS)
                                    THEN "dec_decompress" ELSE "dec_check"
                           /\ UNCHANGED result
    /\ UNCHANGED <<password2, out_fd, dec_flags, pathname_size, salt,
                   pathname_block_size, pathname>>
    /\ UNCHANGED enc_vars

\* if flags & self.COMPRESS: decompress_fd(str_io, buf); str_io = buf
DecryptDecompress ==
    /\ pc = "dec_decompress"
    /\ IF zlib_wellformed(str_io)
       THEN str_io' = zlib_decompress(str_io) /\ pc' = "dec_check" /\ UNCHANGED result
       ELSE Raise("zlib.error") /\ UNCHANGED str_io
    /\ UNCHANGED <<password2, in_fd, out_fd, dec_flags, pathname_size, salt, decryptor,
                   pathname_block_size, pathname, dec_md5, next_chunk, padding_length,
                   file_entry>>
    /\ UNCHANGED enc_vars

\* comparing no more than the lengths
digests_same_length(entry, m) ==
    Len(Get(entry.digest)) = Len(SliceTo(md5_digest(m), block_size))

\* the stored digest against the recomputed one
digests_agree(entry, m) == Get(entry.digest) = SliceTo(md5_digest(m), block_size)

\* the sink written before the comparison
DecryptCheckAfterWrite ==
    /\ pc = "dec_check"
    /\ file_entry' = Some([Get(file_entry) EXCEPT !.salt = Some(salt)])
    /\ out_fd' = out_fd \o str_io
    /\ IF digests_agree(Get(file_entry), dec_md5)
       THEN result' = "ok" /\ pc' = "done"
       ELSE Raise("DigestMissMatch")
    /\ UNCHANGED <<password2, in_fd, dec_flags, pathname_size, salt, decryptor,
                   pathname_block_size, pathname, str_io, dec_md5, next_chunk,
                   padding_length>>
    /\ UNCHANGED enc_vars

\* file_entry.salt = salt; if file_entry.digest != md5.digest()[:bs]: raise
DecryptCheck ==
    /\ pc = "dec_check"
    /\ file_entry' = Some([Get(file_entry) EXCEPT !.salt = Some(salt)])
    /\ IF digests_agree(Get(file_entry), dec_md5)
       THEN pc' = "dec_write" /\ UNCHANGED result
       ELSE Raise("DigestMissMatch")
    /\ UNCHANGED <<password2, in_fd, out_fd, dec_flags, pathname_size, salt, decryptor,
                   pathname_block_size, pathname, str_io, dec_md5, next_chunk,
                   padding_length>>
    /\ UNCHANGED enc_vars

\* out_fd.write(str_io.getvalue()); return file_entry
DecryptWrite ==
    /\ pc = "dec_write"
    /\ out_fd' = out_fd \o str_io
    /\ result' = "ok"
    /\ pc' = "done"
    /\ UNCHANGED <<password2, in_fd, dec_flags, pathname_size, salt, decryptor,
                   pathname_block_size, pathname, str_io, dec_md5, next_chunk,
                   padding_length, file_entry>>
    /\ UNCHANGED enc_vars

\* ====================================================================== Spec
Next ==
    \/ EncryptStart
    \/ EncryptChunk
    \/ EncryptFooter
    \/ DeliverIntact
    \/ DeliverTruncated
    \/ DeliverVersion
    \/ DecryptStart
    \/ DecryptPathname
    \/ DecryptChunk
    \/ DecryptDecompress
    \/ DecryptCheck
    \/ DecryptWrite

Spec == Init /\ [][Next]_vars

\* the same program on content sources whose reads may come back short
ShortSpec == ShortInit /\ [][Next]_vars

\* ==================================================================== claims
\* encrypt_fd has returned and decrypt_fd has been called
Decrypting == pc \in {"decrypt", "dec_pathname", "dec_loop", "dec_decompress",
                      "dec_check", "dec_write", "done"} /\ enc_result = "ok"

\* decrypt_fd has read the header line
HeaderRead == Decrypting /\ pc # "decrypt"

\* decrypt_fd has read the pathname region and gone on
PathnameRead == Decrypting /\ (pc \in {"dec_loop", "dec_decompress", "dec_check",
                                       "dec_write"} \/ result \notin
                               {"none", "UnrecognizedContent", "VersionNotCompatible"})

\* the reader got the container as written, and uses the writer's password
Intact == Decrypting /\ in_fd.data = encrypted_fd
RightPassword == password2 = password

\* the bytes encrypt_fd read in its loop (the compressed form under COMPRESS)
EncContent == SliceTo(enc_in.data, enc_in.pos)

\* the digest decrypt_fd unpacked against the one it computed
StoredDigest == Get(Get(file_entry).digest)
ComputedDigest == SliceTo(md5_digest(dec_md5), block_size)

\* the record decrypt_fd returns against the one encrypt_fd returned
SameRecord ==
    /\ ~IsNone(file_entry)
    /\ Get(file_entry).size = enc_entry.size
    /\ Get(file_entry).mode = enc_entry.mode
    /\ Get(file_entry).ctime = IntOfTime(enc_entry.ctime)
    /\ Get(file_entry).mtime = IntOfTime(enc_entry.mtime)
    /\ Get(file_entry).salt = enc_entry.salt
    /\ Get(file_entry).digest = enc_entry.digest

\* C1: round trip.  Decrypting, with the same password, the container that
\* encrypt_fd wrote with flags = 0 ends without error, writes exactly the
\* content to the sink and returns a record with the size, mode, whole-second
\* ctime and mtime, salt and digest of the record encrypt_fd returned.
C1_RoundTrip ==
    (pc = "done" /\ Intact /\ RightPassword /\ flags_arg = 0)
        => /\ result = "ok"
           /\ out_fd = plain_fd.data
           /\ SameRecord

\* C2: wrong password.  Decrypting a container (COMPRESS or not) with another
\* password, when the stored and recomputed digests disagree, ends with
\* DigestMissMatch and with nothing else.
C2_WrongPasswordIsDigestMissMatch ==
    (pc = "done" /\ Intact /\ ~RightPassword /\ ~IsNone(file_entry)
        /\ StoredDigest # ComputedDigest)
        => result = "DigestMissMatch"

\* the stream is the container cut strictly inside the header or pathname region
CutInside ==
    /\ Decrypting
    /\ Len(in_fd.data) < PathnameRegionEnd
    /\ in_fd.data = SubSeq(encrypted_fd, 1, Len(in_fd.data))

\* C3: truncation.  On a valid container cut strictly inside the header or the
\* encrypted pathname region decrypt_fd never enters the content loop, writes
\* nothing to the sink and ends with UnrecognizedContent: at the header read
\* when the cut is inside the header, at the pathname read otherwise.
C3_TruncationIsUnrecognized ==
    CutInside
        => /\ out_fd = <<>>
           /\ pc \in {"decrypt", "dec_pathname", "done"}
           /\ (pc = "dec_pathname" => Len(in_fd.data) >= block_size)
           /\ (pc = "done" => result = "UnrecognizedContent")

C3_Witness ==
    /\ CutInside
    /\ Len(in_fd.data) > block_size
    /\ pathname_size % block_size = 0
    /\ pc = "done"
    /\ result = "UnrecognizedContent"

\* C4 as stated: whenever the first byte of the stream is greater than VERSION,
\* decrypt_fd fails with VersionNotCompatible.
C4_AnyStreamVersionGate ==
    (HeaderRead /\ Len(in_fd.data) >= 1 /\ in_fd.data[1] > VERSION)
        => result = "VersionNotCompatible"

\* C4, amended: whenever the stream holds a whole header line (block_size
\* bytes) whose first byte is greater than VERSION, decrypt_fd fails with
\* VersionNotCompatible, has read the header line and nothing more, and has
\* written nothing; when the first byte is at most VERSION (0 included) the
\* call does not fail with VersionNotCompatible.
C4_VersionGate ==
    (HeaderRead /\ Len(in_fd.data) >= block_size)
        => IF in_fd.data[1] > VERSION
           THEN /\ pc = "done"
                /\ result = "VersionNotCompatible"
                /\ in_fd.pos = block_size
                /\ out_fd = <<>>
           ELSE result # "VersionNotCompatible"

C4_Witness ==
    /\ HeaderRead
    /\ Len(in_fd.data) > block_size
    /\ in_fd.data[1] = 255
    /\ result = "VersionNotCompatible"

\* C5: compression transparency.  Decrypting, with the same password, the
\* container written with flags = COMPRESS writes exactly the content to the
\* sink and returns, whatever the length of the compressed form; and the bytes
\* decrypt_fd digests are the bytes encrypt_fd digested (the compressed form).
C5_CompressionTransparent ==
    /\ (pc = "done" /\ Intact /\ RightPassword /\ HasFlag(enc_flags, COMPRESS))
           => (result = "ok" /\ out_fd = plain_fd.data)
    /\ (pc = "dec_decompress" /\ Intact /\ RightPassword) => str_io = EncContent

\* the padding the content of length n must get
ExpectedPad(n) == block_size - (n % block_size)

\* length of the encrypted content region of the container
ContentRegion == Len(encrypted_fd) - PathnameRegionEnd - 48

\* C6: padding.  encrypt_fd pads exactly once, on the last chunk, with
\* block_size - (n mod block_size) bytes (1..block_size) each equal to that
\* number, so the encrypted content region is (n div block_size + 1) *
\* block_size bytes; and decrypt_fd strips exactly that many bytes.
C6_PaddingCorrect ==
    /\ enc_result = "ok"
           => LET n == Len(EncContent)
              IN  /\ enc_pads = <<Repeat(ExpectedPad(n), ExpectedPad(n))>>
                  /\ ExpectedPad(n) \in 1..block_size
                  /\ pc # "enc_loop"
                  /\ ContentRegion = ((n \div block_size) + 1) * block_size
    /\ (pc = "done" /\ Intact /\ RightPassword)
           => padding_length = Some(ExpectedPad(Len(EncContent)))

\* the pathname bytes encrypt_fd encrypted
EncPathname == SliceTo(Utf8Encode(enc_entry.pathname), 65536)

\* what encrypt_fd fed to the cipher after the pathname: content, padding, footer
EncTail ==
    EncContent \o (IF Len(enc_pads) = 0 THEN <<>> ELSE enc_pads[1])
    \o build_footer(enc_entry)

\* C7: pathname round trip.  When the container is read back with the same
\* password, the pathname decrypt_fd recovers (and hands to the footer
\* unpacking) is the encoded pathname encrypt_fd was given, whatever its
\* length, and what is decrypted after the pathname region is byte for byte
\* what encrypt_fd encrypted after it.
C7_PathnameRoundTrip ==
    (PathnameRead /\ Intact /\ RightPassword)
        => /\ pathname = EncPathname
           /\ Len(pathname) = pathname_size
           /\ (~IsNone(file_entry) => Get(file_entry).pathname = EncPathname)
           /\ (pc \in {"dec_loop", "dec_decompress"}
                   => str_io = SubSeq(EncTail, 1, Len(str_io)))

C7_Witness ==
    /\ Intact
    /\ RightPassword
    /\ pc = "dec_check"
    /\ pathname_size = block_size + 1
    /\ pathname = EncPathname
    /\ Len(str_io) > block_size

\* C8: no false success.  decrypt_fd returns a record only from the comparison
\* of the unpacked digest with the computed one having found them equal; when
\* the comparison finds them different the call ends with DigestMissMatch.
C8_NoFalseSuccess ==
    [][/\ (result # "ok" /\ result' = "ok") => StoredDigest = ComputedDigest
       /\ (pc = "dec_check" /\ StoredDigest # ComputedDigest)
              => (result' = "DigestMissMatch" /\ pc' = "done")]_vars

C8_Witness ==
    /\ pc = "done"
    /\ result = "ok"
    /\ StoredDigest = ComputedDigest
    /\ Len(out_fd) > 0

\* C9 as stated: the decrypted content is written to the sink before the
\* digest comparison, so when the call ends with DigestMissMatch the sink
\* holds the decrypted output.
C9_WrittenBeforeCheck ==
    (pc = "done" /\ result = "DigestMissMatch") => out_fd = str_io

\* C9, amended: the digest comparison comes before the write to the sink; the
\* sink receives the decrypted output only after the comparison succeeded, so
\* when the call ends with DigestMissMatch (or any other error) the sink has
\* received nothing.
C9_CheckBeforeWrite ==
    /\ (result # "ok" => out_fd = <<>>)
    /\ (pc = "dec_check" => out_fd = <<>>)
    /\ (result = "ok" => out_fd = str_io)

C9_Witness ==
    /\ pc = "done"
    /\ result = "DigestMissMatch"
    /\ Len(str_io) > 0
    /\ out_fd = <<>>

\* the pathname size rounded up to a block multiple
RoundUp(size) == ((size + block_size - 1) \div block_size) * block_size

\* C10: for every declared pathname size decrypt_fd asks for exactly the size
\* rounded up to a block multiple as the pathname region, and has read no more
\* than header and that region when it starts reading content.
C10_PathnameRegionLength ==
    /\ PathnameRead => pathname_block_size = RoundUp(pathname_size)
    /\ (PathnameRead /\ pc = "dec_loop" /\ Len(next_chunk) = 0 /\ Len(str_io) = 0
           /\ in_fd.pos < Len(in_fd.data))
           => in_fd.pos = block_size + RoundUp(pathname_size)

\* encrypt_fd has written the header and the encrypted pathname, nothing more
PathnameWritten == pc = "enc_loop" /\ enc_reads = 0

\* C11: pathname truncation.  For every pathname, those whose encoding is
\* 65536 bytes or longer included, the truncated pathname length fits the
\* 2-byte header field: the header write never fails and encrypt_fd goes on
\* with a whole header line written.
C11_PathnameLengthFits ==
    pc # "encrypt"
        => /\ enc_result # "struct.error"
           /\ Len(encrypted_fd) >= block_size

\* C12: true size.  After encrypt_fd the size in the returned record and in
\* the footer is the number of content bytes read from the input stream,
\* whatever size the supplied record carried (0 for the default record).
C12_TrueSizeInFooter ==
    enc_result = "ok"
        => /\ enc_entry.size = plain_fd.pos
           /\ Slice(build_footer(enc_entry), 16, 24) = PackBE(plain_fd.pos, 8)

\* C13: frame of encrypt_fd on the caller's record.  pathname, size, ctime,
\* mtime and mode stay as passed in; a salt that is present is kept, an absent
\* one is replaced by a generated one; the record's salt is the salt in the
\* header; the digest is untouched until the loop is over and is then the
\* digest of the bytes read.
C13_EntryFrame ==
    (pc # "encrypt" /\ ~IsNone(entry_arg))
        => LET given == Get(entry_arg)
           IN  /\ enc_entry.pathname = given.pathname
               /\ enc_entry.size = given.size
               /\ enc_entry.ctime = given.ctime
               /\ enc_entry.mtime = given.mtime
               /\ enc_entry.mode = given.mode
               /\ IF IsNone(given.salt)
                  THEN ~IsNone(enc_entry.salt) /\ Get(enc_entry.salt) \in Salts
                  ELSE enc_entry.salt = given.salt
               /\ (Len(encrypted_fd) >= block_size
                       => Slice(encrypted_fd, 4, block_size) = Get(enc_entry.salt))
               /\ IF enc_result = "ok"
                  THEN enc_entry.digest = Some(md5_digest(enc_md5))
                  ELSE enc_entry.digest = given.digest

C13_Witness ==
    /\ enc_result = "ok"
    /\ ~IsNone(entry_arg)
    /\ ~IsNone(Get(entry_arg).salt)
    /\ enc_entry.salt = Get(entry_arg).salt
    /\ Slice(encrypted_fd, 4, block_size) = Get(Get(entry_arg).salt)
    /\ ~IsNone(enc_entry.digest)
    /\ enc_entry.size = 5

\* C14: whole-stream consumption.  Whatever the lengths the reads of the
\* content source return, when encrypt_fd returns it has read every byte of
\* the source, fed every byte to the digest, padded once, and the content
\* region holds the whole source plus that padding.
C14_WholeStreamConsumed ==
    enc_result = "ok"
        => /\ plain_fd.pos = Len(plain_fd.data)
           /\ EncContent = enc_in.data
           /\ enc_md5 = md5_update(md5_new, enc_in.data)
           /\ Len(enc_pads) = 1
           /\ ContentRegion = ((Len(enc_in.data) \div block_size) + 1) * block_size

\* C15: container layout.  With reads that return full chunks, every piece
\* handed to the encryptor is a whole number of blocks (nothing is ever left
\* pending in it), the footer is 48 bytes, finalization succeeds and emits
\* nothing, and the container is 16 + padded pathname length +
\* (n div block_size + 1) * block_size + 48 bytes for n content bytes.
C15_ContainerLayout ==
    /\ Len(encryptor.buf) = 0
    /\ enc_result # "ValueError"
    /\ pc \in {"enc_loop", "enc_footer"}
           => Len(encrypted_fd) = block_size + encryptor.blocks * block_size
    /\ enc_result = "ok"
           => LET n == Len(EncContent)
              IN  /\ Len(build_footer(enc_entry)) = 48
                  /\ Len(encrypted_fd) = block_size + encryptor.blocks * block_size
                  /\ Len(encrypted_fd) =
                         block_size + RoundUp(Len(EncPathname))
                         + ((n \div block_size) + 1) * block_size + 48

C15_Witness ==
    /\ enc_result = "ok"
    /\ enc_flags = 0
    /\ Len(EncContent) = block_size
    /\ Len(EncPathname) = block_size + 1
    /\ Len(encrypted_fd) = 8 * block_size

\* C16 as stated: the encrypted pathname region is never empty; an encoded
\* pathname of length 0 gets one full block of zero padding.
C16_PathnameRegionNeverEmpty ==
    PathnameWritten => Len(encrypted_fd) - block_size >= block_size

\* C16, amended: the encrypted pathname region is the encoded pathname length
\* rounded up to a block multiple; for length 0 (as for every multiple of
\* block_size) no padding is added, the region is empty and the content region
\* starts right after the header line; decrypt_fd then reads no byte for it.
C16_PathnameRegionIsRoundUp ==
    /\ PathnameWritten
           => /\ Len(encrypted_fd) - block_size = RoundUp(Len(EncPathname))
              /\ (Len(EncPathname) = 0 => Len(encrypted_fd) = block_size)
    /\ (PathnameRead /\ Intact /\ pathname_size = 0)
           => (pathname_block_size = 0 /\ pathname = <<>>)

C16_Witness ==
    /\ PathnameWritten
    /\ enc_entry.pathname = <<>>
    /\ Len(encrypted_fd) = block_size

\* C17: termination.  decrypt_fd never reaches a point of its lookahead loop
\* from which the next iteration leaves everything as it is: as long as the
\* loop runs, an iteration reads something or ends the loop.
C17_DecryptLoopProgresses ==
    pc = "dec_loop" => ENABLED <<DecryptChunk>>_vars

\* C18: content-only accumulation.  For the container as written and the
\* right password, what the lookahead loop has appended to str_io and fed to
\* the digest is at every step a prefix of the content encrypt_fd read: no
\* padding byte, no footer byte.
C18_ContentOnlyAccumulation ==
    (Intact /\ RightPassword
        /\ (pc \in {"dec_loop", "dec_decompress"}
               \/ (pc = "done" /\ result \in {"ValueError", "struct.error", "IndexError"})))
        => /\ Len(str_io) <= Len(EncContent)
           /\ str_io = SubSeq(EncContent, 1, Len(str_io))
           /\ dec_md5 = md5_update(md5_new, str_io)

====
